---- MODULE Spec2Model ----
(***************************************************************************)
(* A model of the judge0-rs request-orchestration layer: Client, Config,   *)
(* the Submission data model and the Error taxonomy (src/src/client.rs,    *)
(* config.rs, model.rs, error.rs).                                         *)
(*                                                                         *)
(* Representation.  Header names and header values are sequences of bytes  *)
(* (the http crate validates and lowercases them byte by byte); every      *)
(* other string (URLs, tokens, field projections, JSON keys and strings)   *)
(* is a TLA+ string built with \o as format! builds it.  A JSON value is a *)
(* tagged tuple: <<"null">>, <<"bool", b>>, <<"num", n>>, <<"str", s>>,    *)
(* <<"arr", seq>>, <<"obj", seq of <<key, value>>>>.                       *)
(***************************************************************************)
EXTENDS Integers, Sequences, FiniteSets, TLC

VARIABLES client, pc, op, sent, events, response, outcome

vars == <<client, pc, op, sent, events, response, outcome>>

(***************************************************************************)
(* Bounds of the model.                                                    *)
(***************************************************************************)
MaxTokens == 2   \* longest token list handed to get_batch_submission
MaxBatch == 1    \* longest submission list handed to batch_submit
MaxId == 1       \* language identifiers range over 0..MaxId

(***************************************************************************)
(* Option<T> and Result<T, Error>.                                         *)
(***************************************************************************)
None == <<"None">>
Some(v) == <<"Some", v>>
IsSome(o) == o[1] = "Some"
Unwrap(o) == o[2]

Ok(v) == [ok |-> TRUE, kind |-> "Ok", val |-> v]
Err(k, cause) == [ok |-> FALSE, kind |-> k, val |-> cause]

(***************************************************************************)
(* Byte strings used in headers.                                           *)
(***************************************************************************)
XAuthToken == <<88, 45, 65, 117, 116, 104, 45, 84, 111, 107, 101, 110>>      \* "X-Auth-Token"
XAuthUser == <<88, 45, 65, 117, 116, 104, 45, 85, 115, 101, 114>>            \* "X-Auth-User"
LowerXAuthToken == <<120, 45, 97, 117, 116, 104, 45, 116, 111, 107, 101, 110>> \* "x-auth-token"
ContentType == <<99, 111, 110, 116, 101, 110, 116, 45, 116, 121, 112, 101>>  \* "content-type"
UpperContentType == <<67, 111, 110, 116, 101, 110, 116, 45, 84, 121, 112, 101>> \* "Content-Type"
ApplicationJson == <<97, 112, 112, 108, 105, 99, 97, 116, 105, 111, 110, 47, 106, 115, 111, 110>> \* "application/json"
BadName == <<88, 10, 65>>            \* "X\nA": a control character in a header name
TokenBytes == <<116, 111, 107, 101, 110>>   \* "token"
UserBytes == <<117, 115, 101, 114>>         \* "user"
BadValue == <<116, 10, 107>>         \* "t\nk": a control character in a header value

(***************************************************************************)
(* http::HeaderName::from_str and http::HeaderValue::from_str, as called   *)
(* by the two closures of Client::headers.                                 *)
(***************************************************************************)
IsTchar(b) ==
  \/ b \in 48..57
  \/ b \in 65..90
  \/ b \in 97..122
  \/ b \in {33, 35, 36, 37, 38, 39, 42, 43, 45, 46, 94, 95, 96, 124, 126}

LowerByte(b) == IF b \in 65..90 THEN b + 32 ELSE b

LowerBytes(s) == [i \in 1..Len(s) |-> LowerByte(s[i])]

IsValidNameBytes(s) == Len(s) > 0 /\ \A i \in 1..Len(s) : IsTchar(s[i])

IsValidValueByte(b) == (b >= 32 /\ b # 127) \/ b = 9

IsValidValueBytes(s) == \A i \in 1..Len(s) : IsValidValueByte(s[i])

\* header_name without the validity check (a lossy conversion in its place).
header_name_unchecked(name) == Ok(LowerBytes(name))

header_name(name) ==
  IF IsValidNameBytes(name) THEN Ok(LowerBytes(name))
  ELSE Err("HeaderName", name)

header_value(value) ==
  IF IsValidValueBytes(value) THEN Ok(value)
  ELSE Err("HeaderName", value)

(***************************************************************************)
(* http::HeaderMap: a map from lowercased names to values; insert replaces *)
(* the value of a name that is already present.                            *)
(***************************************************************************)
EmptyHeaderMap == [n \in {} |-> <<>>]

Insert(h, name, value) ==
  [n \in DOMAIN h \cup {name} |-> IF n = name THEN value ELSE h[n]]

HasHeader(h, name, value) == name \in DOMAIN h /\ h[name] = value

(***************************************************************************)
(* Config and Config::default.                                             *)
(***************************************************************************)
DefaultConfig ==
  [authentication_header_name |-> XAuthToken,
   authentication_token |-> None,
   authorization_header_name |-> XAuthUser,
   authorization_token |-> None,
   base64_encoded |-> FALSE,
   wait |-> FALSE]

AuthenticationNames == {XAuthToken, UpperContentType, BadName}
AuthorizationNames == {XAuthUser, LowerXAuthToken, BadName}
AuthenticationTokens == {None, Some(TokenBytes), Some(BadValue)}
AuthorizationTokens == {None, Some(UserBytes)}

Configs ==
  [authentication_header_name : AuthenticationNames,
   authentication_token : AuthenticationTokens,
   authorization_header_name : AuthorizationNames,
   authorization_token : AuthorizationTokens,
   base64_encoded : BOOLEAN,
   wait : BOOLEAN]

(***************************************************************************)
(* Client::headers: content-type first, then the authentication header,    *)
(* then the authorization header; the first failing conversion returns.    *)
(***************************************************************************)
\* AddTokenHeader with the name passed where the token value belongs.
AddTokenHeaderNameAsValue(h, name, token) ==
  IF ~IsSome(token) THEN Ok(h)
  ELSE LET n == header_name(name) IN
       IF ~n.ok THEN n
       ELSE LET v == header_value(Unwrap(token)) IN
            IF ~v.ok THEN v
            ELSE Ok(Insert(h, n.val, n.val))

AddTokenHeader(h, name, token) ==
  IF ~IsSome(token) THEN Ok(h)
  ELSE LET n == header_name(name) IN
       IF ~n.ok THEN n
       ELSE LET v == header_value(Unwrap(token)) IN
            IF ~v.ok THEN v
            ELSE Ok(Insert(h, n.val, v.val))

headers(config) ==
  LET ct == header_value(ApplicationJson) IN
  IF ~ct.ok THEN ct
  ELSE LET h1 == AddTokenHeader(Insert(EmptyHeaderMap, ContentType, ct.val),
                                config.authentication_header_name,
                                config.authentication_token) IN
       IF ~h1.ok THEN h1
       ELSE AddTokenHeader(h1.val,
                           config.authorization_header_name,
                           config.authorization_token)

(***************************************************************************)
(* serde_json::Value.                                                      *)
(***************************************************************************)
JNull == <<"null">>
JBool(b) == <<"bool", b>>
JNum(n) == <<"num", n>>
JStr(s) == <<"str", s>>
JArr(elems) == <<"arr", elems>>
JObj(pairs) == <<"obj", pairs>>

IsObj(j) == j[1] = "obj"
IsArr(j) == j[1] = "arr"

Keys(j) == {j[2][i][1] : i \in 1..Len(j[2])}

(***************************************************************************)
(* The records of model.rs: each field with its Rust type, in declaration  *)
(* order.  F(name, ty) is a required field, O(name, ty) an Option<ty>.     *)
(***************************************************************************)
F(name, ty) == [name |-> name, ty |-> ty, opt |-> FALSE]
O(name, ty) == [name |-> name, ty |-> ty, opt |-> TRUE]

Language ==
  <<F("id", "usize"), F("name", "String"), O("is_archived", "bool"),
    O("source_file", "String"), O("compile_cmd", "String"), O("run_cmd", "String")>>

Status == <<F("id", "usize"), F("description", "String")>>

About ==
  <<F("version", "String"), F("homepage", "String"),
    F("source_code", "String"), F("maintainer", "String")>>

Worker ==
  <<F("queue", "String"), F("size", "usize"), F("available", "usize"),
    F("idle", "usize"), F("working", "usize"), F("paused", "usize"),
    F("failed", "usize")>>

Submission ==
  <<F("source_code", "String"), F("language_id", "usize"),
    O("compiler_options", "String"), O("command_line_arguments", "String"),
    O("stdin", "String"), O("expected_output", "String"),
    O("cpu_time_limit", "f64"), O("cpu_extra_time", "f64"),
    O("wall_time_limit", "f64"), O("memory_limit", "f64"),
    O("stack_limit", "usize"), O("max_processes_and_or_threads", "usize"),
    O("enable_per_process_and_thread_time_limit", "bool"),
    O("enable_per_process_and_thread_memory_limit", "bool"),
    O("max_file_size", "usize"), O("redirect_stderr_to_stdout", "bool"),
    O("enable_network", "bool"), O("number_of_runs", "usize"),
    O("additional_files", "String"), O("callback_url", "String"),
    O("stdout", "String"), O("stderr", "String"),
    O("compile_output", "String"), O("message", "String"),
    O("exit_code", "i64"), O("exit_signal", "i64"),
    O("status", "Status"), O("created_at", "DateTime"),
    O("finished_at", "DateTime"), O("token", "String"),
    O("time", "f64"), O("wall_time", "f64"), O("memory", "f64")>>

StructTypes == {"Language", "Status", "About", "Worker", "Submission"}

Schema(ty) ==
  CASE ty = "Language" -> Language
    [] ty = "Status" -> Status
    [] ty = "About" -> About
    [] ty = "Worker" -> Worker
    [] ty = "Submission" -> Submission

FieldNames(schema) == {schema[i].name : i \in 1..Len(schema)}
OptionalNames(schema) == {schema[i].name : i \in {k \in 1..Len(schema) : schema[k].opt}}
RequiredNames(schema) == FieldNames(schema) \ OptionalNames(schema)

(***************************************************************************)
(* Submission::default (derive(Default)) and struct-update syntax.         *)
(***************************************************************************)
SubmissionDefault ==
  [n \in FieldNames(Submission) |->
     IF n = "source_code" THEN ""
     ELSE IF n = "language_id" THEN 0
     ELSE None]

With(s, updates) == [n \in DOMAIN s |-> IF n \in DOMAIN updates THEN updates[n] ELSE s[n]]

(***************************************************************************)
(* derive(Serialize) through serde_json::to_string: every field of the     *)
(* record is written, in declaration order; an Option that is None is      *)
(* written as null (no skip_serializing_if attribute is present).          *)
(***************************************************************************)
RECURSIVE SerializeStruct(_, _)

SerializeType(ty, v) ==
  CASE ty \in {"String", "DateTime"} -> JStr(v)
    [] ty \in {"usize", "i64", "f64"} -> JNum(v)
    [] ty = "bool" -> JBool(v)
    [] ty \in StructTypes -> SerializeStruct(ty, v)

SerializeField(f, v) ==
  IF ~f.opt THEN SerializeType(f.ty, v)
  ELSE IF IsSome(v) THEN SerializeType(f.ty, Unwrap(v))
  ELSE JNull

SerializeStruct(ty, v) ==
  LET schema == Schema(ty) IN
  JObj([i \in 1..Len(schema) |->
          <<schema[i].name, SerializeField(schema[i], v[schema[i].name])>>])

SerializeVec(ty, vs) == JArr([i \in 1..Len(vs) |-> SerializeStruct(ty, vs[i])])

\* serde_json::to_string(&body) for the two body types the client sends.
to_string(ty, body) ==
  IF ty.vec THEN Ok(SerializeVec(ty.elem, body))
  ELSE Ok(SerializeStruct(ty.elem, body))

(***************************************************************************)
(* derive(Deserialize) through serde_json: a record is read from a JSON    *)
(* object (unknown keys ignored, a repeated key an error, a missing        *)
(* Option None, a missing required field an error) or from a JSON array    *)
(* (positionally, every field present).  Option<T> reads null as None.     *)
(***************************************************************************)
Timestamps == {"2023-07-19T17:03:52.098Z"}

RECURSIVE DeserializeStruct(_, _)

DeserializeType(ty, j) ==
  CASE ty = "String" ->
         IF j[1] = "str" THEN Ok(j[2]) ELSE Err("Serde", "invalid type")
    [] ty = "DateTime" ->
         IF j[1] = "str" /\ j[2] \in Timestamps THEN Ok(j[2])
         ELSE Err("Serde", "invalid type")
    [] ty = "usize" ->
         IF j[1] = "num" /\ j[2] >= 0 THEN Ok(j[2]) ELSE Err("Serde", "invalid type")
    [] ty \in {"i64", "f64"} ->
         IF j[1] = "num" THEN Ok(j[2]) ELSE Err("Serde", "invalid type")
    [] ty = "bool" ->
         IF j[1] = "bool" THEN Ok(j[2]) ELSE Err("Serde", "invalid type")
    [] ty \in StructTypes -> DeserializeStruct(ty, j)

DeserializeOption(ty, j) ==
  IF j = JNull THEN Ok(None)
  ELSE LET r == DeserializeType(ty, j) IN
       IF r.ok THEN Ok(Some(r.val)) ELSE r

DeserializeField(f, j) ==
  IF f.opt THEN DeserializeOption(f.ty, j) ELSE DeserializeType(f.ty, j)

MissingField(f) ==
  IF f.opt THEN Ok(None) ELSE Err("Serde", "missing field")

\* The value found for field f in the object j: at most one member may carry
\* the field's name.
ObjectField(f, j) ==
  LET at == {i \in 1..Len(j[2]) : j[2][i][1] = f.name} IN
  IF at = {} THEN MissingField(f)
  ELSE IF Cardinality(at) > 1 THEN Err("Serde", "duplicate field")
  ELSE DeserializeField(f, j[2][CHOOSE i \in at : TRUE][2])

DeserializeStruct(ty, j) ==
  LET schema == Schema(ty)
      byName == [n \in FieldNames(schema) |->
                   LET i == CHOOSE k \in 1..Len(schema) : schema[k].name = n IN
                   IF IsObj(j) THEN ObjectField(schema[i], j)
                   ELSE DeserializeField(schema[i], j[2][i])]
  IN  IF IsObj(j) \/ (IsArr(j) /\ Len(j[2]) = Len(schema))
      THEN IF \A n \in FieldNames(schema) : byName[n].ok
           THEN Ok([n \in FieldNames(schema) |-> byName[n].val])
           ELSE Err("Serde", "invalid field")
      ELSE Err("Serde", "invalid type")

DeserializeVec(ty, j) ==
  IF ~IsArr(j) THEN Err("Serde", "invalid type")
  ELSE LET rs == [i \in 1..Len(j[2]) |->
                    IF ty = "Value" THEN Ok(j[2][i]) ELSE DeserializeStruct(ty, j[2][i])]
       IN  IF \A i \in 1..Len(rs) : rs[i].ok
           THEN Ok([i \in 1..Len(rs) |-> rs[i].val])
           ELSE Err("Serde", "invalid element")

(***************************************************************************)
(* The result types the operations declare.  A response body is either     *)
(* text that is no JSON document, <<"raw", text>>, or a JSON value.        *)
(***************************************************************************)
One(elem) == [vec |-> FALSE, elem |-> elem]
Vec(elem) == [vec |-> TRUE, elem |-> elem]

Raw(text) == <<"raw", text>>
IsJson(body) == body[1] # "raw"

\* from_slice with the unit type read as "ignore the body".
from_slice_ignoring_unit_body(ty, body) ==
  IF ~ty.vec /\ ty.elem = "Unit" THEN Ok(<<>>)
  ELSE IF ~IsJson(body) THEN Err("Serde", "syntax")
  ELSE IF ty.vec THEN DeserializeVec(ty.elem, body)
  ELSE IF ty.elem = "Value" THEN Ok(body)
  ELSE DeserializeStruct(ty.elem, body)

\* serde_json::from_slice::<T>(body)
from_slice(ty, body) ==
  IF ~IsJson(body) THEN Err("Serde", "syntax")
  ELSE IF ty.vec THEN DeserializeVec(ty.elem, body)
  ELSE IF ty.elem = "Unit" THEN
         IF body = JNull THEN Ok(<<>>) ELSE Err("Serde", "invalid type")
  ELSE IF ty.elem = "Value" THEN Ok(body)
  ELSE DeserializeStruct(ty.elem, body)

(***************************************************************************)
(* String formatting: Display for bool and usize, format! with positional  *)
(* arguments, and [&str]::join.                                            *)
(***************************************************************************)
BoolStr(b) == IF b THEN "true" ELSE "false"

Digit(d) == <<"0", "1", "2", "3", "4", "5", "6", "7", "8", "9">>[d + 1]

RECURSIVE UsizeStr(_)
UsizeStr(n) == IF n < 10 THEN Digit(n) ELSE UsizeStr(n \div 10) \o Digit(n % 10)

\* format!: the literal pieces of the template with the i-th argument put
\* after the i-th piece; Len(pieces) = Len(args) + 1.
RECURSIVE Format(_, _)
Format(pieces, args) ==
  IF args = <<>> THEN pieces[1]
  ELSE pieces[1] \o args[1] \o Format(Tail(pieces), Tail(args))

RECURSIVE Join(_, _)
Join(strs, sep) ==
  IF strs = <<>> THEN ""
  ELSE IF Len(strs) = 1 THEN strs[1]
  ELSE strs[1] \o sep \o Join(Tail(strs), sep)

unwrap_or(o, default) == IF IsSome(o) THEN Unwrap(o) ELSE default

(***************************************************************************)
(* The inputs the callers draw from.                                       *)
(***************************************************************************)
BaseUrls == {"http://localhost:2358", "http://judge0"}
LanguageIds == 0..MaxId \cup {45}
Tokens == {"a", "b7"}
FieldsArgs == {None, Some("token,status")}

RECURSIVE SeqsUpTo(_, _)
SeqsUpTo(S, n) ==
  IF n = 0 THEN {<<>>}
  ELSE SeqsUpTo(S, n - 1) \cup {Append(q, x) : q \in {r \in SeqsUpTo(S, n - 1) : Len(r) = n - 1}, x \in S}

TokenLists == SeqsUpTo(Tokens, MaxTokens)

MinimalSubmission ==
  With(SubmissionDefault, [source_code |-> "print(1)", language_id |-> 1])

LimitedSubmission ==
  With(SubmissionDefault,
       [source_code |-> "main", language_id |-> 4,
        stdin |-> Some("Judge0"), cpu_time_limit |-> Some(1),
        stack_limit |-> Some(128000),
        enable_per_process_and_thread_time_limit |-> Some(FALSE)])

Submissions == {MinimalSubmission, LimitedSubmission}
SubmissionLists == SeqsUpTo(Submissions, MaxBatch)

(***************************************************************************)
(* What the service may answer: a status code and a body.                  *)
(***************************************************************************)
StatusCodes == {200, 422}

TokenOnlyBody == JObj(<<<<"token", JStr("a")>>>>)

ValidationErrorBody ==
  JObj(<<<<"wall_time_limit", JArr(<<JStr("must be less than or equal to 150")>>)>>>>)

LanguageBody ==
  JObj(<<<<"id", JNum(45)>>, <<"name", JStr("Assembly (NASM 2.14.02)")>>>>)

SubmissionBody ==
  JObj(<<<<"source_code", JStr("main")>>, <<"language_id", JNum(4)>>,
         <<"stdout", JStr("hello")>>, <<"stderr", JNull>>,
         <<"status", JObj(<<<<"id", JNum(3)>>, <<"description", JStr("Accepted")>>>>)>>,
         <<"created_at", JStr("2023-07-19T17:03:52.098Z")>>,
         <<"token", JStr("a")>>, <<"memory", JNum(380)>>>>)

AboutBody ==
  JObj(<<<<"version", JStr("1.5.0")>>, <<"homepage", JStr("https://judge0.com")>>,
         <<"source_code", JStr("https://github.com/judge0/judge0")>>,
         <<"maintainer", JStr("Herman")>>>>)

WorkerBody ==
  JObj(<<<<"queue", JStr("default")>>, <<"size", JNum(0)>>, <<"available", JNum(1)>>,
         <<"idle", JNum(1)>>, <<"working", JNum(0)>>, <<"paused", JNum(0)>>,
         <<"failed", JNum(0)>>>>)

Bodies ==
  {Raw(""), JNull, TokenOnlyBody, ValidationErrorBody, LanguageBody, SubmissionBody,
   AboutBody, JArr(<<>>), JArr(<<LanguageBody>>), JArr(<<TokenOnlyBody>>),
   JArr(<<SubmissionBody>>), JArr(<<WorkerBody>>)}

(***************************************************************************)
(* Conversions into Error (the #[from] attributes of error.rs) and         *)
(* reqwest::Response::json, which reports a body that does not decode as a *)
(* reqwest::Error.                                                         *)
(***************************************************************************)
FromReqwest(cause) == Err("Request", cause)
FromSerde(cause) == Err("Serde", cause)

json(ty, body) ==
  LET r == from_slice(ty, body) IN
  IF r.ok THEN r ELSE FromReqwest("decode")

(***************************************************************************)
(* State.  client: the Client value the caller holds, None once an         *)
(* operation has taken it by value.  op: the operation in progress or last *)
(* finished, with the Client it consumed and its arguments.  sent: the     *)
(* requests handed to the transport by that operation.  events: the steps  *)
(* it has taken.  response: the status and body received.  outcome: the    *)
(* Result it returned.                                                     *)
(***************************************************************************)
NoOp == [name |-> "none"]

Init ==
  /\ client \in {Some([base_url |-> u, config |-> DefaultConfig]) : u \in BaseUrls}
  /\ pc = "idle"
  /\ op = NoOp
  /\ sent = <<>>
  /\ events = <<>>
  /\ response = None
  /\ outcome = None

\* Client::new
New(base_url) ==
  /\ pc \in {"idle", "done"}
  /\ client' = Some([base_url |-> base_url, config |-> DefaultConfig])
  /\ pc' = "idle"
  /\ op' = NoOp
  /\ sent' = <<>>
  /\ events' = <<>>
  /\ response' = None
  /\ outcome' = None

\* Client::configure
configure(config) ==
  /\ pc = "idle"
  /\ IsSome(client)
  /\ client' = Some([Unwrap(client) EXCEPT !.config = config])
  /\ UNCHANGED <<pc, op, sent, events, response, outcome>>

(***************************************************************************)
(* Client::request and Client::request_with_body, up to the first          *)
(* suspension (send().await).  The operation has taken self by value.      *)
(***************************************************************************)
Started(name, args, ty, req) ==
  [name |-> name, args |-> args, ty |-> ty, self |-> Unwrap(client), req |-> req]

request(name, args, endpoint, method, ty) ==
  LET self == Unwrap(client)
      url == Format(<<"", "", "">>, <<self.base_url, endpoint>>)
      h == headers(self.config)
  IN  /\ pc = "idle"
      /\ IsSome(client)
      /\ client' = None
      /\ op' = Started(name, args, ty, [method |-> method, endpoint |-> endpoint])
      /\ response' = None
      /\ IF ~h.ok
         THEN /\ pc' = "done"
              /\ sent' = <<>>
              /\ events' = <<"headers">>
              /\ outcome' = Some(h)
         ELSE /\ pc' = "sending"
              /\ sent' = <<[method |-> method, url |-> url,
                            headers |-> h.val, body |-> None]>>
              /\ events' = <<"headers", "send">>
              /\ outcome' = None

request_with_body(name, args, endpoint, method, ty, bodyTy, body) ==
  LET self == Unwrap(client)
      url == Format(<<"", "", "">>, <<self.base_url, endpoint>>)
      h == headers(self.config)
      b == to_string(bodyTy, body)
  IN  /\ pc = "idle"
      /\ IsSome(client)
      /\ client' = None
      /\ op' = Started(name, args, ty, [method |-> method, endpoint |-> endpoint])
      /\ response' = None
      /\ IF ~h.ok
         THEN /\ pc' = "done"
              /\ sent' = <<>>
              /\ events' = <<"headers">>
              /\ outcome' = Some(h)
         ELSE IF ~b.ok
         THEN /\ pc' = "done"
              /\ sent' = <<>>
              /\ events' = <<"headers", "serialize">>
              /\ outcome' = Some(FromSerde(b.val))
         ELSE /\ pc' = "sending"
              /\ sent' = <<[method |-> method, url |-> url,
                            headers |-> h.val, body |-> Some(b.val)]>>
              /\ events' = <<"headers", "serialize", "send">>
              /\ outcome' = None

(***************************************************************************)
(* The public operations.                                                  *)
(***************************************************************************)
authenticate ==
  request("authenticate", <<>>, "/authenticate", "POST", One("Unit"))

authorize ==
  request("authorize", <<>>, "/authorize", "POST", One("Unit"))

get_languages ==
  request("get_languages", <<>>, "/languages", "GET", Vec("Language"))

get_all_languages ==
  request("get_all_languages", <<>>, "/languages/all", "GET", Vec("Language"))

get_language(id) ==
  request("get_language", <<id>>,
          Format(<<"/languages/", "">>, <<UsizeStr(id)>>), "GET", One("Language"))

get_statuses ==
  request("get_statuses", <<>>, "/statuses", "GET", Vec("Status"))

get_about ==
  request("get_about", <<>>, "/about", "GET", One("About"))

get_workers ==
  request("get_workers", <<>>, "/workers", "GET", Vec("Worker"))

\* create_submission with the two format arguments exchanged.
create_submission_swapped(submission) ==
  LET config == Unwrap(client).config IN
  request_with_body("create_submission", <<submission>>,
                    Format(<<"/submissions?base64_encoded=", "&wait=", "">>,
                           <<BoolStr(config.wait), BoolStr(config.base64_encoded)>>),
                    "POST", One("Value"), One("Submission"), submission)

create_submission(submission) ==
  LET config == Unwrap(client).config IN
  request_with_body("create_submission", <<submission>>,
                    Format(<<"/submissions?base64_encoded=", "&wait=", "">>,
                           <<BoolStr(config.base64_encoded), BoolStr(config.wait)>>),
                    "POST", One("Value"), One("Submission"), submission)

get_submission(token, fields) ==
  LET config == Unwrap(client).config IN
  request("get_submission", <<token, fields>>,
          Format(<<"/submissions/", "?base64_encoded=", "&wait=", "&fields=", "">>,
                 <<token, unwrap_or(fields, "*"),
                   BoolStr(config.base64_encoded), BoolStr(config.wait)>>),
          "GET", One("Submission"))

delete_submission(token, fields) ==
  request("delete_submission", <<token, fields>>,
          Format(<<"/submissions/", "?fields=", "">>, <<token, unwrap_or(fields, "*")>>),
          "DELETE", One("Submission"))

batch_submit(submissions) ==
  LET config == Unwrap(client).config IN
  request_with_body("batch_submit", <<submissions>>,
                    Format(<<"/submissions/batch?base64_encoded=", "">>,
                           <<BoolStr(config.base64_encoded)>>),
                    "POST", Vec("Value"), Vec("Submission"), submissions)

get_batch_submission(tokens, fields) ==
  LET config == Unwrap(client).config IN
  request("get_batch_submission", <<tokens, fields>>,
          Format(<<"/submission/batch?tokens=", "&base64_encoded=", "&fields=", "">>,
                 <<Join(tokens, ","), BoolStr(config.base64_encoded),
                   unwrap_or(fields, "*")>>),
          "GET", Vec("Submission"))

(***************************************************************************)
(* The transport and the rest of request / request_with_body: send().await *)
(* fails or yields a response; json::<T>().await reads the body and        *)
(* decodes it, whatever the status code.                                   *)
(***************************************************************************)
\* SendFails with one retry of the request before giving up.
SendFailsRetrying ==
  /\ pc = "sending"
  /\ IF Len(sent) < 2
     THEN /\ pc' = "sending"
          /\ sent' = Append(sent, sent[1])
          /\ events' = events \o <<"send failed", "send">>
          /\ outcome' = outcome
     ELSE /\ pc' = "done"
          /\ sent' = sent
          /\ events' = Append(events, "send failed")
          /\ outcome' = Some(FromReqwest("send"))
  /\ UNCHANGED <<client, op, response>>

SendFails ==
  /\ pc = "sending"
  /\ pc' = "done"
  /\ events' = Append(events, "send failed")
  /\ outcome' = Some(FromReqwest("send"))
  /\ UNCHANGED <<client, op, sent, response>>

SendCompletes(status) ==
  /\ pc = "sending"
  /\ pc' = "receiving"
  /\ events' = Append(events, "response")
  /\ response' = Some([status |-> status, body |-> None])
  /\ UNCHANGED <<client, op, sent, outcome>>

BodyFails ==
  /\ pc = "receiving"
  /\ pc' = "done"
  /\ events' = Append(events, "body failed")
  /\ outcome' = Some(FromReqwest("body"))
  /\ UNCHANGED <<client, op, sent, response>>

\* BodyCompletes with an error_for_status() check before the body is decoded.
BodyCompletesCheckingStatus(body) ==
  /\ pc = "receiving"
  /\ pc' = "done"
  /\ events' = Append(events, "decode")
  /\ response' = Some([Unwrap(response) EXCEPT !.body = Some(body)])
  /\ outcome' = Some(IF Unwrap(response).status >= 400 THEN FromReqwest("status")
                     ELSE json(op.ty, body))
  /\ UNCHANGED <<client, op, sent>>

BodyCompletes(body) ==
  /\ pc = "receiving"
  /\ pc' = "done"
  /\ events' = Append(events, "decode")
  /\ response' = Some([Unwrap(response) EXCEPT !.body = Some(body)])
  /\ outcome' = Some(json(op.ty, body))
  /\ UNCHANGED <<client, op, sent>>

Next ==
  \/ \E u \in BaseUrls : New(u)
  \/ \E c \in Configs : configure(c)
  \/ authenticate
  \/ authorize
  \/ get_languages
  \/ get_all_languages
  \/ \E id \in LanguageIds : get_language(id)
  \/ get_statuses
  \/ get_about
  \/ get_workers
  \/ \E s \in Submissions : create_submission(s)
  \/ \E t \in Tokens, f \in FieldsArgs : get_submission(t, f)
  \/ \E t \in Tokens, f \in FieldsArgs : delete_submission(t, f)
  \/ \E ss \in SubmissionLists : batch_submit(ss)
  \/ \E ts \in TokenLists, f \in FieldsArgs : get_batch_submission(ts, f)
  \/ SendFails
  \/ \E st \in StatusCodes : SendCompletes(st)
  \/ BodyFails
  \/ \E b \in Bodies : BodyCompletes(b)

Spec == Init /\ [][Next]_vars

(***************************************************************************)
(* Vocabulary of the properties.                                           *)
(***************************************************************************)
Called == op.name # "none"
Finished == Called /\ pc = "done"
Result == Unwrap(outcome)
Received == IsSome(response) /\ IsSome(Unwrap(response).body)
ReceivedBody == Unwrap(Unwrap(response).body)
HeaderError == IsSome(outcome) /\ Result.kind \in {"HeaderName", "HeaderValue"}

Literal(b) == IF b THEN "true" ELSE "false"

\* The URLs made of a prefix and the given "key=value" parameters in any order.
QueryUrls(prefix, params) ==
  {prefix \o "?" \o Join([i \in 1..Len(params) |-> params[f[i]]], "&") :
     f \in Permutations(1..Len(params))}

MalformedName(config) ==
  \/ IsSome(config.authentication_token)
     /\ ~IsValidNameBytes(config.authentication_header_name)
  \/ IsSome(config.authorization_token)
     /\ ~IsValidNameBytes(config.authorization_header_name)

IllegalValue(config) ==
  \/ IsSome(config.authentication_token)
     /\ ~IsValidValueBytes(Unwrap(config.authentication_token))
  \/ IsSome(config.authorization_token)
     /\ ~IsValidValueBytes(Unwrap(config.authorization_token))

\* The names of the headers a Config makes the client set, lowercased.
SetNames(config) ==
  <<ContentType>>
  \o (IF IsSome(config.authentication_token)
      THEN <<LowerBytes(config.authentication_header_name)>> ELSE <<>>)
  \o (IF IsSome(config.authorization_token)
      THEN <<LowerBytes(config.authorization_header_name)>> ELSE <<>>)

DistinctNames(config) ==
  \A i, j \in 1..Len(SetNames(config)) :
    i # j => SetNames(config)[i] # SetNames(config)[j]

Carries(h, name, token) ==
  IsSome(token) /\ HasHeader(h, LowerBytes(name), Unwrap(token))

HeadersAsConfigured(h, config) ==
  /\ HasHeader(h, ContentType, ApplicationJson)
  /\ IsSome(config.authentication_token)
       <=> Carries(h, config.authentication_header_name, config.authentication_token)
  /\ IsSome(config.authorization_token)
       <=> Carries(h, config.authorization_header_name, config.authorization_token)

(***************************************************************************)
(* C1.  create_submission hands the transport exactly one request, unless  *)
(* header construction failed: a POST to base_url followed by              *)
(* "/submissions?base64_encoded=<b>&wait=<w>", <b> and <w> the literal     *)
(* "true"/"false" of the Config, in that order, nothing else in the query. *)
(***************************************************************************)
C1_CreateSubmissionRequest ==
  op.name = "create_submission" =>
    /\ Len(sent) <= 1
    /\ ~HeaderError => Len(sent) = 1
    /\ \A i \in 1..Len(sent) :
         /\ sent[i].method = "POST"
         /\ sent[i].url = op.self.base_url \o "/submissions?base64_encoded="
                            \o Literal(op.self.config.base64_encoded)
                            \o "&wait=" \o Literal(op.self.config.wait)

C1_Witness ==
  /\ Finished
  /\ op.name = "create_submission"
  /\ op.self.config.base64_encoded
  /\ ~op.self.config.wait
  /\ Len(sent) = 1
  /\ Result.ok

(***************************************************************************)
(* C2.  get_submission(token, fields) sends a GET to /submissions/{token}  *)
(* whose query carries base64_encoded and wait with the Config's values    *)
(* and fields with "*" for None or the supplied string.                    *)
(***************************************************************************)
C2_GetSubmissionQuery ==
  op.name = "get_submission" =>
    \A i \in 1..Len(sent) :
      /\ sent[i].method = "GET"
      /\ sent[i].url \in
           QueryUrls(op.self.base_url \o "/submissions/" \o op.args[1],
                     <<"base64_encoded=" \o Literal(op.self.config.base64_encoded),
                       "wait=" \o Literal(op.self.config.wait),
                       "fields=" \o (IF IsSome(op.args[2]) THEN Unwrap(op.args[2]) ELSE "*")>>)

(***************************************************************************)
(* C3.  get_batch_submission(tokens, fields) sends a GET to the path       *)
(* /submissions/batch whose query carries tokens joined by ",",            *)
(* base64_encoded with the Config's value and fields with "*" for None or  *)
(* the supplied value.                                                     *)
(***************************************************************************)
C3_GetBatchSubmissionRequest ==
  op.name = "get_batch_submission" =>
    \A i \in 1..Len(sent) :
      /\ sent[i].method = "GET"
      /\ sent[i].url \in
           QueryUrls(op.self.base_url \o "/submissions/batch",
                     <<"tokens=" \o Join(op.args[1], ","),
                       "base64_encoded=" \o Literal(op.self.config.base64_encoded),
                       "fields=" \o (IF IsSome(op.args[2]) THEN Unwrap(op.args[2]) ELSE "*")>>)

(***************************************************************************)
(* C4 as stated.  Every request handed to the transport carries            *)
(* content-type: application/json, and carries the authentication          *)
(* (authorization) header with its token exactly when that token is Some.  *)
(***************************************************************************)
C4_HeadersForEveryConfig ==
  Called => \A i \in 1..Len(sent) : HeadersAsConfigured(sent[i].headers, op.self.config)

(***************************************************************************)
(* C4 amended.  The same, for every Config in which the names of the       *)
(* headers being set (content-type and the header name of each configured  *)
(* token) are pairwise distinct ignoring ASCII case; such a request        *)
(* carries no other header.                                                *)
(***************************************************************************)
C4_HeadersForDistinctNames ==
  Called /\ DistinctNames(op.self.config) =>
    \A i \in 1..Len(sent) :
      /\ HeadersAsConfigured(sent[i].headers, op.self.config)
      /\ DOMAIN sent[i].headers = {SetNames(op.self.config)[k] :
                                     k \in 1..Len(SetNames(op.self.config))}

C4_Witness ==
  /\ Called
  /\ Len(sent) = 1
  /\ op.name = "get_about"
  /\ op.self.config.authentication_token = Some(TokenBytes)
  /\ op.self.config.authorization_token = None
  /\ op.self.config.authentication_header_name = XAuthToken
  /\ HasHeader(sent[1].headers, LowerXAuthToken, TokenBytes)

(***************************************************************************)
(* C5.  With a token configured under a malformed header name, every       *)
(* operation returns Error::HeaderName and nothing is handed to the        *)
(* transport.                                                              *)
(***************************************************************************)
C5_MalformedNameShortCircuits ==
  Called /\ MalformedName(op.self.config) =>
    /\ pc = "done"
    /\ sent = <<>>
    /\ IsSome(outcome)
    /\ Result.kind = "HeaderName"

C5_Witness ==
  /\ Finished
  /\ op.name = "batch_submit"
  /\ op.self.config.authorization_token = Some(UserBytes)
  /\ op.self.config.authorization_header_name = BadName
  /\ op.self.config.authentication_token = None
  /\ Result = Err("HeaderName", BadName)

(***************************************************************************)
(* C6.  With a token value that is illegal in a header value (under a      *)
(* well-formed header name), every operation fails with Error::HeaderValue *)
(* before anything is handed to the transport.                             *)
(***************************************************************************)
C6_IllegalValueIsHeaderValue ==
  Called /\ IllegalValue(op.self.config) /\ ~MalformedName(op.self.config) =>
    /\ pc = "done"
    /\ sent = <<>>
    /\ IsSome(outcome)
    /\ Result.kind = "HeaderValue"

(***************************************************************************)
(* C7.  Whatever the status code, a create_submission whose response body  *)
(* is a JSON document returns Ok with that JSON value.                     *)
(***************************************************************************)
C7_CreateSubmissionIgnoresStatus ==
  Finished /\ op.name = "create_submission" /\ Received /\ IsJson(ReceivedBody) =>
    Result = Ok(ReceivedBody)

C7_Witness ==
  /\ Finished
  /\ op.name = "create_submission"
  /\ Received
  /\ Unwrap(response).status = 422
  /\ ReceivedBody = ValidationErrorBody
  /\ Result = Ok(ValidationErrorBody)

(***************************************************************************)
(* C8.  The body sent by create_submission and batch_submit holds, for     *)
(* each Submission, the two required keys, the key of an optional field    *)
(* exactly when the field is Some, and no null.                            *)
(***************************************************************************)
OmitsUnset(j, submission) ==
  /\ IsObj(j)
  /\ RequiredNames(Submission) \subseteq Keys(j)
  /\ \A n \in OptionalNames(Submission) : n \in Keys(j) <=> IsSome(submission[n])
  /\ \A i \in 1..Len(j[2]) : j[2][i][2] # JNull

C8_BodyOmitsUnsetFields ==
  /\ op.name = "create_submission" =>
       \A i \in 1..Len(sent) : OmitsUnset(Unwrap(sent[i].body), op.args[1])
  /\ op.name = "batch_submit" =>
       \A i \in 1..Len(sent) :
         /\ IsArr(Unwrap(sent[i].body))
         /\ Len(Unwrap(sent[i].body)[2]) = Len(op.args[1])
         /\ \A k \in 1..Len(op.args[1]) :
              OmitsUnset(Unwrap(sent[i].body)[2][k], op.args[1][k])

(***************************************************************************)
(* C9.  A response object that populates only token decodes, for           *)
(* get_submission, delete_submission and (as an element)                   *)
(* get_batch_submission, into a Submission with token set and every        *)
(* optional field unset.                                                   *)
(***************************************************************************)
TokenOnly(s) ==
  /\ s["token"] = Some("a")
  /\ \A n \in OptionalNames(Submission) \ {"token"} : s[n] = None

C9_TokenOnlyDecodes ==
  /\ Finished /\ op.name \in {"get_submission", "delete_submission"}
       /\ Received /\ ReceivedBody = TokenOnlyBody
     => Result.ok /\ TokenOnly(Result.val)
  /\ Finished /\ op.name = "get_batch_submission"
       /\ Received /\ ReceivedBody = JArr(<<TokenOnlyBody>>)
     => Result.ok /\ Len(Result.val) = 1 /\ TokenOnly(Result.val[1])

(***************************************************************************)
(* C10.  An operation that fails after its response body arrived (the body *)
(* does not match the declared result type) returns Error::Serde; one that *)
(* fails in the transport returns Error::Request.                          *)
(***************************************************************************)
C10_DecodeFailureIsSerde ==
  Finished /\ ~Result.ok =>
    /\ Received => Result.kind = "Serde"
    /\ events[Len(events)] \in {"send failed", "body failed"} => Result.kind = "Request"

(***************************************************************************)
(* C11.  Once an operation has been started or has completed on a Client,  *)
(* the caller still holds that Client, with the same base URL and Config,  *)
(* for further operations.                                                 *)
(***************************************************************************)
C11_ClientRemainsAvailable ==
  Called => client = Some(op.self)

(***************************************************************************)
(* C12.  Every request of create_submission, get_submission,               *)
(* delete_submission, batch_submit and get_batch_submission carries the    *)
(* query parameters base64_encoded and wait with the values of the Config  *)
(* of the Client, whatever the call's own arguments (which may add fields  *)
(* and tokens parameters, in any position).                                *)
(***************************************************************************)
SubmissionOperations ==
  {"create_submission", "get_submission", "delete_submission",
   "batch_submit", "get_batch_submission"}

\* The paths a submission-related operation may address.
SubmissionPaths ==
  IF op.name = "create_submission" THEN {"/submissions"}
  ELSE IF op.name \in {"get_submission", "delete_submission"}
  THEN {"/submissions/" \o op.args[1]}
  ELSE {"/submissions/batch", "/submission/batch"}

FieldsValues ==
  {"*", "true", "false"} \cup {Unwrap(f) : f \in {x \in FieldsArgs : IsSome(x)}}

\* The call-specific parameters a request may carry besides the two flags.
CallParameters ==
  IF op.name \in {"create_submission", "batch_submit"} THEN {<<>>}
  ELSE IF op.name \in {"get_submission", "delete_submission"}
  THEN {<<>>} \cup {<<"fields=" \o f>> : f \in FieldsValues}
  ELSE {<<"tokens=" \o Join(op.args[1], ",")>>}
       \cup {<<"tokens=" \o Join(op.args[1], ","), "fields=" \o f>> : f \in FieldsValues}

C12_FlagsOnEverySubmissionRequest ==
  op.name \in SubmissionOperations =>
    \A i \in 1..Len(sent) :
      \E path \in SubmissionPaths, extra \in CallParameters :
        sent[i].url \in
          QueryUrls(op.self.base_url \o path,
                    <<"base64_encoded=" \o Literal(op.self.config.base64_encoded),
                      "wait=" \o Literal(op.self.config.wait)>> \o extra)

(***************************************************************************)
(* C13.  An operation takes its steps in one order: header construction,   *)
(* body serialization (for the two operations with a body), one send, the  *)
(* response, its decoding.  It hands the transport at most one request; a  *)
(* failing step ends it with an Error and no further step; while it has    *)
(* not ended it waits on the transport; it ends with a value or one of     *)
(* the four Error kinds, and nothing follows its end (no retry, no         *)
(* polling, with wait = true as with wait = false).                        *)
(***************************************************************************)
HasBody == op.name \in {"create_submission", "batch_submit"}

UpToSend == IF HasBody THEN <<"headers", "serialize", "send">> ELSE <<"headers", "send">>

ErrorKinds == {"Request", "Serde", "HeaderName", "HeaderValue"}

OneExchange ==
  Called =>
    /\ Len(sent) <= 1
    /\ Len(sent) = Cardinality({i \in 1..Len(events) : events[i] = "send"})
    /\ \/ events = <<"headers">> /\ pc = "done" /\ ~Result.ok
       \/ HasBody /\ events = <<"headers", "serialize">> /\ pc = "done" /\ ~Result.ok
       \/ events = UpToSend /\ pc = "sending"
       \/ events = UpToSend \o <<"send failed">> /\ pc = "done" /\ ~Result.ok
       \/ events = UpToSend \o <<"response">> /\ pc = "receiving"
       \/ events = UpToSend \o <<"response", "body failed">> /\ pc = "done" /\ ~Result.ok
       \/ events = UpToSend \o <<"response", "decode">> /\ pc = "done"
    /\ pc = "done" <=> IsSome(outcome)
    /\ pc = "done" => Result.ok \/ Result.kind \in ErrorKinds

\* After its end an operation takes no further step: the next thing that
\* happens is a new Client.
NothingAfterEnd == Finished => op' = NoOp /\ sent' = <<>>

C13_SingleExchange == []OneExchange /\ [][NothingAfterEnd]_vars

C13_Witness ==
  /\ Finished
  /\ op.name = "create_submission"
  /\ op.self.config.wait
  /\ events = <<"headers", "serialize", "send", "response", "decode">>
  /\ Len(sent) = 1
  /\ Result.ok

====
